---- MODULE Spec2Model ----
(***************************************************************************)
(* Model of the single-stream assembly engine of DAS-Data-Concat           *)
(* (src/src/concat/main.py, class Concatenator).                            *)
(*                                                                          *)
(* Time is exact: every absolute time is an integer number of ticks, with   *)
(* TPS ticks per second.  Columns (samples) are SubTicks ticks long.        *)
(* A sample is the pair <<packet index, column index>>, so the place of     *)
(* every input sample in the output can be followed.                        *)
(***************************************************************************)
EXTENDS Integers, Sequences, FiniteSets, TLC

\* ---------------------------------------------------------------- constants
\* timedelta(days=1), in seconds
DAY == 86400

\* ---------------------------------------------------------------- configuration
\* config.py: chunk duration in seconds (CONCAT_TIME of config.ini), kept small
CHUNK_SIZE == 4
\* duration of one packet in seconds (self.time_seconds of _calculate_attrs)
TIME_SECONDS == 2

\* ---------------------------------------------------------------- bounds
\* ticks per sample: the resolution of the sub-second part of a timestamp
SubTicks == 2
\* number of packets in the input directory
NPackets == 4
\* the first packet starts at most MaxLead seconds before a UTC midnight
MaxLead == 5
\* largest distance in seconds between the names of two consecutive packets
MaxDiff == 3
\* number of times the process may be killed and started again
MaxKills == 1
\* number of runs started after a run has ended by itself
MaxReruns == 1
\* number of faults of the environment: a failed write of a chunk file, a chunk
\* file removed from SAVE_PATH
MaxFaults == 1
\* channels of a packet: self.space_samples, and of a packet of another layout
SPACE_SAMPLES == 2
OtherSpace == 3

NoCarry == [present |-> FALSE, cells |-> << >>, space |-> 0]
SomeCarry(c, s) == [present |-> TRUE, cells |-> c, space |-> s]
\* a chunk file: its name, its columns, its channels
MkFile(ct, data, s) == [ct |-> ct, data |-> data, space |-> s]
NoFile == MkFile(0, << >>, 0)
\* the faults so far: how many, the chunk whose write failed, and the numbers of
\* runs and of kills when it failed
NoFaults == [n |-> 0, failed |-> NoFile, run |-> 0, kills |-> 0]
NoLast == [present |-> FALSE, ct |-> 0, off |-> 0]
\* the record of a step: what it was and, for a step of the fill loop, the packet,
\* the absolute time of the cursor and of the packet, the split indices, the
\* reasons to stop, and whether the chunk was opened with a carry
MkOp(kind, pkt, cursor, ts, start, end, split, gap, opened, withCarry) ==
    [kind |-> kind, pkt |-> pkt, cursor |-> cursor, ts |-> ts, start |-> start,
     end |-> end, split |-> split, gap |-> gap, opened |-> opened,
     withCarry |-> withCarry]
PlainOp(kind) == MkOp(kind, 0, 0, 0, 0, 0, "none", FALSE, FALSE, FALSE)
NoOp == PlainOp("none")
\* is_chunk_stop: what follows the packet ("gap", "last" or "none") and the
\* boundary the packet was split at ("day", "chunk" or "none")
NoClosing == [next |-> "none", split |-> "none"]
NoGolden ==
    [set |-> FALSE, ended |-> "none", last |-> NoLast, carry_file |-> NoCarry, files |-> {}]

VARIABLES
    system,             \* SYSTEM_NAME: "Mekorot" or "Prisma"
    SPS,                \* config.py: canonical samples per second
    packets,            \* the input files: sequence of [sec, frac]
    dirs,               \* the input directories, in the order _get_files walks
                        \* them: sequence of sets of indices of packets
    space,              \* the channels of each packet
    unreadable,         \* the packets whose file cannot be read
    resampler,          \* a matrix read from a file, on its way through
                        \* _data_preprocess: [file, data, sps, dx, state]
    executor,           \* the thread pool of multithreaded_mean and its tasks
    legacy,             \* src/src/concat.py: the locals of concat_files, the
                        \* input directories and the chunk files it writes
    \* persistent state under SAVE_PATH
    last,               \* the file "last": checkpoint (chunk_time, offset)
    carry_file,         \* the file "carry.npy"
    files,              \* the chunk files: set of [ct, data, space], one per name
    \* state of the process
    pc,
    carry,              \* self.carry
    restored,           \* self.restored
    new_chunk,          \* self.new_chunk
    chunk_time,         \* self.chunk_time (ticks)
    chunk_named,        \* self.chunk_time_str is not None
    chunk_to_next_day,  \* self.chunk_to_next_day (ticks)
    chunk_data_offset,  \* self.chunk_data_offset (columns)
    till_next_chunk,    \* self.till_next_chunk (columns)
    time_offset,        \* self.time_offset (ticks)
    chunk_data,         \* local chunk buffer of _concat_files
    chunk_space,        \* chunk_data.shape[0]: the channels of the buffer
    h5_files_list,      \* pending packet indices, next packet first
    previous_chunk_time,        \* locals of _concat_files
    previous_chunk_data_offset,
    closing,            \* why the fill loop stops: [next, split]
    \* history
    op,                 \* what the last step did
    closed_by,          \* why the chunk of the checkpoint was closed
    golden,             \* the persistent state an uninterrupted run ends with
    phase,              \* "reference": the uninterrupted run; "real": the run
    kills, reruns,
    faults              \* the faults of the environment so far

pvars == <<last, carry_file, files>>
qvars == <<pc, carry, restored, new_chunk, chunk_time, chunk_named, chunk_to_next_day,
           chunk_data_offset, till_next_chunk, time_offset, chunk_data, chunk_space,
           h5_files_list, previous_chunk_time, previous_chunk_data_offset, closing>>
hvars == <<op, closed_by, golden, phase, kills, reruns, faults>>
cfg == <<system, SPS, packets, dirs, space, unreadable, resampler, executor,
         legacy>>
env == <<golden, phase, kills, reruns, faults>>
vars == <<cfg, pvars, qvars, hvars>>

\* ticks per second
TPS == SPS * SubTicks
\* columns of a full chunk buffer: int(CHUNK_SIZE * SPS)
FullCols == CHUNK_SIZE * SPS
\* columns of one packet after resampling: self.time_samples
TIME_SAMPLES == TIME_SECONDS * SPS

\* ---------------------------------------------------------------- numerics
\* np.floor of a time, as a time
Floor(t) == (t \div TPS) * TPS
\* int(x): truncation toward zero, in whole seconds
TruncSec(t) == IF t >= 0 THEN t \div TPS ELSE -((-t) \div TPS)
\* round half to even of n/d (d > 0): np.round, round(x, 0)
RoundDiv(n, d) ==
    LET q == n \div d
        r == n % d
    IN  IF 2 * r < d THEN q
        ELSE IF 2 * r > d THEN q + 1
        ELSE IF q % 2 = 0 THEN q ELSE q + 1
\* np.round(t) of a time, in whole seconds
RoundSec(t) == RoundDiv(t, TPS)
\* np.round(t, 1) of a time, in tenths of a second
RoundTenths(t) == RoundDiv(10 * t, TPS)
\* datetime.replace(hour=0, minute=0, second=0, microsecond=0) + 1 day
NextMidnight(t) == ((t \div (DAY * TPS)) + 1) * (DAY * TPS)
\* datetime.replace(hour=0, minute=0, second=0) + 1 day: the sub-second part stays
NextDayKeepFraction(t) == NextMidnight(t) + (t % TPS)
\* offset / SPS as a time
ColsToTicks(c) == c * SubTicks

\* ---------------------------------------------------------------- data
Blank == <<0, 0>>
BlankCols(n) == [i \in 1..n |-> Blank]
\* the matrix of packet i: column c holds sample <<i, c>>
PacketData(i) == [c \in 1..TIME_SAMPLES |-> <<i, c>>]
\* a python slice bound i on an axis of length n: negative counts from the end
Norm(i, n) == IF i < 0 THEN (IF n + i < 0 THEN 0 ELSE n + i) ELSE (IF i > n THEN n ELSE i)
\* python slice a[:, lo:hi]
Slice(a, lo, hi) ==
    LET l == Norm(lo, Len(a))
        h == Norm(hi, Len(a))
    IN  IF l >= h THEN << >> ELSE SubSeq(a, l + 1, h)
\* python slice a[:, :hi]
SliceTo(a, hi) == Slice(a, 0, hi)
\* python slice a[:, lo:]
SliceFrom(a, lo) == Slice(a, lo, Len(a))
\* a with the columns lo+1 .. lo+Len(d) replaced by d
Overwrite(a, lo, d) ==
    [i \in 1..Len(a) |-> IF i > lo /\ i <= lo + Len(d) THEN d[i - lo] ELSE a[i]]

\* ---------------------------------------------------------------- input
\* _get_file_timestamp(file_name, offset)
FileTimestamp(i, offset) ==
    IF system = "Mekorot" THEN packets[i].sec * TPS + offset
    ELSE packets[i].sec * TPS + packets[i].frac

\* the time a packet's first sample was taken
PacketTime(i) == packets[i].sec * TPS + packets[i].frac

Systems == {"Mekorot", "Prisma"}
Fracs == {0, 1}
Rates == {1, 2}
Diffs == 1..MaxDiff
Leads == 0..MaxLead

MkPackets(lead, d, f) ==
    LET RECURSIVE SecOf(_)
        SecOf(i) == IF i = 1 THEN DAY - lead ELSE SecOf(i - 1) + d[i - 1]
    IN  [i \in 1..NPackets |-> [sec |-> SecOf(i), frac |-> f[i]]]

\* the sub-second parts of the time stamps of a directory: none, one or all of
\* the packets have one
FracPatterns ==
    { f \in [1..NPackets -> Fracs] :
        Cardinality({ i \in 1..NPackets : f[i] # 0 }) \in {0, 1, NPackets} }

PacketLists ==
    { MkPackets(lead, d, f) :
        lead \in Leads, d \in [1..(NPackets - 1) -> Diffs], f \in FracPatterns }

\* no matrix is on its way through _data_preprocess
NoResampler ==
    [file |-> [data |-> << >>, sps |-> 0, dx |-> 0],
     data |-> << >>, sps |-> 0, dx |-> 0, state |-> "none"]

\* Concatenator.__init__(self, num_threads: int = 4)
DefaultThreads == 4
\* no thread pool has been made
NoExecutor == [state |-> "none", num_thread |-> DefaultThreads]

\* concat_files of src/src/concat.py is not running
NoLegacy == [pc |-> "none"]

\* all the input files are in one directory, and the packets come resampled
OneDirectory ==
    /\ dirs = << 1..NPackets >>
    /\ resampler = NoResampler
    /\ executor = NoExecutor
    /\ legacy = NoLegacy
    /\ legacy = NoLegacy

\* every packet can be read and has the same channels, and nothing fails
NoFaultyInput ==
    /\ space = [i \in 1..NPackets |-> SPACE_SAMPLES]
    /\ unreadable = {}
    /\ faults = NoFaults

\* ---------------------------------------------------------------- __init__
FreshProcess ==
    /\ pc = "start"
    /\ carry = NoCarry
    /\ restored = FALSE
    /\ new_chunk = FALSE
    /\ chunk_time = 0
    /\ chunk_named = FALSE
    /\ chunk_to_next_day = 0
    /\ chunk_data_offset = 0
    /\ till_next_chunk = 0
    /\ time_offset = 0
    /\ chunk_data = << >>
    /\ chunk_space = 0
    /\ h5_files_list = << >>
    /\ previous_chunk_time = 0
    /\ previous_chunk_data_offset = 0
    /\ closing = NoClosing

Init ==
    /\ system \in Systems
    /\ SPS \in Rates
    /\ packets \in PacketLists
    /\ OneDirectory
    /\ last = NoLast
    /\ carry_file = NoCarry
    /\ files = {}
    /\ FreshProcess
    /\ op = NoOp
    /\ closed_by = NoClosing
    /\ golden = NoGolden
    /\ phase = "real"
    /\ kills = 0
    /\ reruns = 0
    /\ NoFaultyInput

\* a new process: Concatenator.__init__ again, nothing of the old process is left
NewProcess ==
    /\ pc' = "start"
    /\ carry' = NoCarry
    /\ restored' = FALSE
    /\ new_chunk' = FALSE
    /\ chunk_time' = 0
    /\ chunk_named' = FALSE
    /\ chunk_to_next_day' = 0
    /\ chunk_data_offset' = 0
    /\ till_next_chunk' = 0
    /\ time_offset' = 0
    /\ chunk_data' = << >>
    /\ chunk_space' = 0
    /\ h5_files_list' = << >>
    /\ previous_chunk_time' = 0
    /\ previous_chunk_data_offset' = 0
    /\ closing' = NoClosing

\* ---------------------------------------------------------------- startup
\* a reading of the checkpoint that takes the chunk as closed only when it is full
CheckpointClosedWhenFull(ct, off) == off = FullCols

\* the checkpoint denotes a closed chunk
CheckpointClosed(ct, off) ==
    \/ off = FullCols
    \/ ct + ColsToTicks(off) >= NextMidnight(ct)

\* _get_previous_file_data up to and including np.load of the carry file
GetPreviousFileData ==
    /\ pc = "start"
    /\ IF last.present
       THEN /\ previous_chunk_time' = last.ct
            /\ previous_chunk_data_offset' = last.off
            /\ IF CheckpointClosed(last.ct, last.off)
               THEN /\ restored' = FALSE
                    /\ carry' = IF carry_file.present THEN carry_file ELSE NoCarry
                    /\ pc' = IF carry_file.present THEN "remove_carry" ELSE "get_files"
               ELSE /\ restored' = TRUE
                    /\ carry' = carry
                    /\ pc' = "get_files"
       ELSE /\ previous_chunk_time' = 0
            /\ previous_chunk_data_offset' = 0
            /\ restored' = restored
            /\ carry' = carry
            /\ pc' = "get_files"
    /\ op' = PlainOp("startup")
    /\ UNCHANGED <<cfg, pvars, new_chunk, chunk_time, chunk_named,
                   chunk_to_next_day, chunk_data_offset, till_next_chunk, time_offset,
                   chunk_data, chunk_space, h5_files_list, closing, closed_by, env>>

\* _get_previous_file_data: os.remove of the carry file after it was loaded
RemoveCarryFile ==
    /\ pc = "remove_carry"
    /\ carry_file' = NoCarry
    /\ pc' = "get_files"
    /\ op' = PlainOp("remove_carry")
    /\ UNCHANGED <<cfg, last, files, carry, restored, new_chunk, chunk_time,
                   chunk_named, chunk_to_next_day, chunk_data_offset, till_next_chunk,
                   time_offset, chunk_data, chunk_space, h5_files_list, previous_chunk_time,
                   previous_chunk_data_offset, closing, closed_by, env>>

\* the time _get_files compares with the checkpoint: the number in the file name
\* for Mekorot, the time stamp of the file name for Prisma
NameTime(i) ==
    IF system = "Mekorot" THEN packets[i].sec * TPS ELSE packets[i].sec * TPS + packets[i].frac

\* sorted(files, key=...): the files of one directory by the time of their name
RECURSIVE SortDir(_)
SortDir(S) ==
    IF S = {} THEN << >>
    ELSE LET first == CHOOSE i \in S :
                         \A j \in S : NameTime(i) < NameTime(j)
                                       \/ (NameTime(i) = NameTime(j) /\ i <= j)
         IN  <<first>> \o SortDir(S \ {first})

\* the loop over the directories of _get_files: one directory after the other,
\* the files of each one sorted
RECURSIVE WalkDirs(_)
WalkDirs(ds) == IF ds = << >> THEN << >> ELSE SortDir(Head(ds)) \o WalkDirs(Tail(ds))

\* _get_files: the packets at or after the checkpoint, first packet first
GetFilesList(pct, poff) ==
    SelectSeq(WalkDirs(dirs),
              LAMBDA i : NameTime(i) >= Floor(pct) + ColsToTicks(poff))

\* the carry loaded at startup is dropped when the first file starts a second or
\* more after its end
CarryGap(first, c) ==
    Floor(FileTimestamp(first, time_offset)
          - (previous_chunk_time + ColsToTicks(previous_chunk_data_offset)
             + ColsToTicks(Len(c.cells)))) > 0

\* _concat_files from _get_files to the head of its while loop
GetFiles ==
    /\ pc = "get_files"
    /\ LET l == GetFilesList(previous_chunk_time, previous_chunk_data_offset)
       IN  /\ h5_files_list' = l
           /\ IF l = << >>
              THEN /\ pc' = "done"
                   /\ carry' = carry
                   /\ op' = PlainOp("no_files")
              ELSE /\ pc' = "loop"
                   /\ carry' = IF carry.present /\ CarryGap(Head(l), carry)
                               THEN NoCarry ELSE carry
                   /\ op' = PlainOp(IF carry.present /\ CarryGap(Head(l), carry)
                                    THEN "drop_carry" ELSE "get_files")
    /\ UNCHANGED <<cfg, pvars, restored, new_chunk, chunk_time, chunk_named,
                   chunk_to_next_day, chunk_data_offset, till_next_chunk, time_offset,
                   chunk_data, chunk_space, previous_chunk_time, previous_chunk_data_offset,
                   closing, closed_by, env>>

\* _calculate_attrs: the time offset of the packet's attributes
AttrsTimeOffset(i) == IF system = "Mekorot" THEN packets[i].frac ELSE time_offset

\* the chunk file named str(ct), if there is one
ChunkFile(ct) == {f \in files : f.ct = ct}

\* _restore_previous_chunk, lines 382-396: the padding has a negative width, or
\* the channels of the packet at the head of the list and not those of the file
RestoreFails(f, s) == Len(f.data) > FullCols \/ f.space # s

\* a reading of _get_chunk_data that allocates an empty chunk when the chunk
\* file of the checkpoint is missing
ChunkDataKindFresh(r, ct, s) ==
    IF ~r \/ ChunkFile(ct) = {} THEN "allocate"
    ELSE IF \E f \in ChunkFile(ct) : RestoreFails(f, s) THEN "restore_error"
    ELSE "restore"

\* _get_chunk_data and _restore_previous_chunk: what becomes of the chunk buffer.
\* A missing file is FileNotFoundError, raised again; the ValueError of np.zeros
\* or np.hstack is not caught.
ChunkDataKind(r, ct, s) ==
    IF ~r THEN "allocate"
    ELSE IF ChunkFile(ct) = {} THEN "restore_missing"
    ELSE IF \E f \in ChunkFile(ct) : RestoreFails(f, s) THEN "restore_error"
    ELSE "restore"

\* the head of the while loop of _concat_files: _calculate_attrs and _get_chunk_data
GetChunkData ==
    /\ pc = "loop"
    /\ IF h5_files_list = << >>
       THEN /\ pc' = "done"
            /\ op' = PlainOp("finished")
            /\ UNCHANGED <<restored, new_chunk, chunk_time, chunk_named,
                           chunk_to_next_day, chunk_data_offset, till_next_chunk,
                           time_offset, chunk_data, chunk_space>>
       ELSE LET kind == ChunkDataKind(restored, previous_chunk_time,
                                      space[Head(h5_files_list)])
            IN  /\ time_offset' = AttrsTimeOffset(Head(h5_files_list))
                /\ op' = PlainOp(kind)
                /\ IF kind \in {"restore_missing", "restore_error"}
                   THEN /\ pc' = "error"
                        /\ UNCHANGED <<restored, new_chunk, chunk_time, chunk_named,
                                       chunk_to_next_day, chunk_data_offset,
                                       till_next_chunk, chunk_data, chunk_space>>
                   ELSE IF kind = "restore"
                   THEN \* _restore_previous_chunk
                        /\ \E f \in ChunkFile(previous_chunk_time) :
                              /\ chunk_data' = f.data \o BlankCols(FullCols - Len(f.data))
                              /\ chunk_space' = f.space
                        /\ chunk_to_next_day' =
                              NextMidnight(previous_chunk_time) - previous_chunk_time
                        /\ chunk_data_offset' = previous_chunk_data_offset
                        /\ chunk_time' = previous_chunk_time
                        /\ chunk_named' = TRUE
                        /\ new_chunk' = FALSE
                        /\ restored' = FALSE
                        /\ pc' = "fill"
                        /\ UNCHANGED till_next_chunk
                   ELSE \* _allocate_empty_chunk
                        /\ chunk_data' = BlankCols(FullCols)
                        /\ chunk_space' = space[Head(h5_files_list)]
                        /\ chunk_data_offset' = 0
                        /\ till_next_chunk' = FullCols
                        /\ new_chunk' = TRUE
                        /\ pc' = "fill"
                        /\ UNCHANGED <<restored, chunk_time, chunk_named,
                                       chunk_to_next_day>>
    /\ UNCHANGED <<cfg, pvars, carry, h5_files_list, previous_chunk_time,
                   previous_chunk_data_offset, closing, closed_by, env>>

\* ---------------------------------------------------------------- the fill loop
\* _get_next_packet_data: the gap flag of the head of the list
GapAfter(l, off) ==
    /\ Len(l) > 1
    /\ RoundSec(FileTimestamp(l[2], off) - FileTimestamp(l[1], off)) > TIME_SECONDS

\* _get_next_packet_data: the data of the head of the list, cut where the next
\* file begins
NextPacketData(l, off) ==
    IF Len(l) > 1 /\ ~GapAfter(l, off)
    THEN SliceTo(PacketData(l[1]),
                 SPS * RoundSec(FileTimestamp(l[2], off) - FileTimestamp(l[1], off)))
    ELSE PacketData(l[1])

\* the packet lies a packet's length or more before the cursor (lines 522-526)
SkipPacket(ct, offset, ts) ==
    TruncSec(ct + ColsToTicks(offset) - TIME_SECONDS * TPS) * TPS >= ts

\* a new chunk that always takes its time from the packet, carry or not
NewChunkTimeFromPacket(hasCarry, pct, poff, ts) == ts

\* the time of a new chunk (lines 531-551): from the previous chunk when there is
\* a carry, else from the packet; then the sub-second part of the packet
NewChunkTime(hasCarry, pct, poff, ts) ==
    LET base == IF hasCarry THEN pct + ColsToTicks(poff) ELSE ts
    IN  Floor(base) + ts - Floor(ts)

\* self.chunk_to_next_day of a new chunk (lines 553-572), as a time
NewChunkToNextDay(ct) == RoundSec(NextDayKeepFraction(ct) - ct) * TPS

\* self.till_next_day (lines 591-593), in seconds
TillNextDay(ctnd, offset) == RoundSec(ctnd - ColsToTicks(offset))

\* start_split_index (lines 594-611)
StartSplit(ct, offset, ts) ==
    LET lead == RoundSec(ct + ColsToTicks(offset) - ts)
    IN  IF lead >= 1 THEN SPS * lead ELSE 0

\* which boundary cuts the packet (lines 616-636)
SplitKind(tnd, tnc, cols) ==
    IF tnd * SPS < cols THEN "day"
    ELSE IF tnc < cols THEN "chunk"
    ELSE "none"

\* end_split_index (lines 616-636)
EndSplit(tnd, tnc, cols) ==
    IF SplitKind(tnd, tnc, cols) = "day" THEN SPS * tnd
    ELSE IF SplitKind(tnd, tnc, cols) = "chunk" THEN tnc
    ELSE cols

\* the check of lines 644-667 fails
TimeInconsistent(ct, offset, ts, start) ==
    RoundTenths(ct + ColsToTicks(offset) - (ts + ColsToTicks(start))) > 5

\* the assignment of lines 669-674 raises: the slice of the buffer and the data
\* differ in width and the data is not one column wide
AppendFails(buf, offset, n, d) ==
    LET k == Len(Slice(buf, offset, offset + n))
    IN  Len(d) # k /\ Len(d) # 1

\* the buffer after the assignment of lines 669-674
AppendData(buf, offset, n, d) ==
    LET l == Norm(offset, Len(buf))
        k == Len(Slice(buf, offset, offset + n))
    IN  IF Len(d) = k THEN Overwrite(buf, l, d)
        ELSE Overwrite(buf, l, [i \in 1..k |-> d[1]])

\* the assignment of line 539 raises: the carry cannot be broadcast to the
\* channels of the buffer
CarryFails(c, s) == c.space # s /\ c.space # 1

\* one iteration of the while loop of _fill_chunk_data
FillChunkData ==
    /\ pc = "fill"
    /\ LET l       == h5_files_list
           cur     == Head(l)
           tnc     == FullCols - chunk_data_offset
           toff    == AttrsTimeOffset(cur)
           ts      == FileTimestamp(cur, toff)
           gap     == GapAfter(l, toff)
           data0   == NextPacketData(l, toff)
           stop0   == Len(l) = 1 \/ gap
           open    == new_chunk
           hasC    == new_chunk /\ carry.present
           ct1     == IF open
                      THEN NewChunkTime(hasC, previous_chunk_time,
                                        previous_chunk_data_offset, ts)
                      ELSE chunk_time
           buf1    == IF hasC THEN Overwrite(chunk_data, 0, carry.cells) ELSE chunk_data
           off1    == IF hasC THEN Len(carry.cells) ELSE chunk_data_offset
           carry1  == IF hasC THEN NoCarry ELSE carry
           ctnd1   == IF open THEN NewChunkToNextDay(ct1) ELSE chunk_to_next_day
           tnd     == TillNextDay(ctnd1, off1)
           start   == StartSplit(ct1, off1, ts)
           cols    == Len(data0)
           split   == SplitKind(tnd, tnc, cols)
           end     == EndSplit(tnd, tnc, cols)
           carry2  == IF split # "none"
                      THEN SomeCarry(SliceFrom(data0, end), space[cur])
                      ELSE carry1
           data1   == Slice(data0, start, end)
           n       == end - start
           rec(k)  == MkOp(k, cur, ct1 + ColsToTicks(off1), ts, start, end, split, gap,
                           open, hasC)
       IN  /\ till_next_chunk' = tnc
           /\ time_offset' = toff
           /\ IF cur \in unreadable
              THEN \* _read_data or _check_shape_consistency raises
                   /\ pc' = "error"
                   /\ op' = MkOp("read_error", cur,
                                 chunk_time + ColsToTicks(chunk_data_offset),
                                 ts, 0, 0, "none", FALSE, FALSE, FALSE)
                   /\ UNCHANGED <<carry, new_chunk, chunk_time, chunk_named,
                                  chunk_to_next_day, chunk_data_offset, chunk_data,
                                  h5_files_list, closing>>
              ELSE IF space[cur] # chunk_space
              THEN \* lines 512-519: break, the packet stays in the list
                   /\ pc' = "save_chunk"
                   /\ op' = MkOp("mismatch", cur,
                                 chunk_time + ColsToTicks(chunk_data_offset),
                                 ts, 0, cols, "none", gap, FALSE, FALSE)
                   /\ closing' = [next |-> "mismatch", split |-> "none"]
                   /\ UNCHANGED <<carry, new_chunk, chunk_time, chunk_named,
                                  chunk_to_next_day, chunk_data_offset, chunk_data,
                                  h5_files_list>>
              ELSE IF SkipPacket(chunk_time, chunk_data_offset, ts)
              THEN \* continue: the same packet is examined again
                   /\ pc' = "fill"
                   /\ op' = MkOp("skip", cur, chunk_time + ColsToTicks(chunk_data_offset),
                                 ts, 0, cols, "none", gap, FALSE, FALSE)
                   /\ UNCHANGED <<carry, new_chunk, chunk_time, chunk_named,
                                  chunk_to_next_day, chunk_data_offset, chunk_data,
                                  h5_files_list, closing>>
              ELSE /\ new_chunk' = FALSE
                   /\ closing' = [next |-> IF gap THEN "gap"
                                            ELSE IF Len(l) = 1 THEN "last" ELSE "none",
                                   split |-> split]
                   /\ chunk_time' = ct1
                   /\ chunk_named' = (chunk_named \/ open)
                   /\ chunk_to_next_day' = ctnd1
                   /\ carry' = carry2
                   /\ IF hasC /\ CarryFails(carry, chunk_space)
                      THEN \* line 539 raises: the carry has other channels
                           /\ pc' = "error"
                           /\ op' = rec("carry_error")
                           /\ chunk_data' = chunk_data
                           /\ chunk_data_offset' = chunk_data_offset
                           /\ UNCHANGED h5_files_list
                      ELSE IF TimeInconsistent(ct1, off1, ts, start)
                      THEN /\ pc' = "error"
                           /\ op' = rec("time_inconsistency")
                           /\ chunk_data' = buf1
                           /\ chunk_data_offset' = off1
                           /\ UNCHANGED h5_files_list
                      ELSE IF AppendFails(buf1, off1, n, data1)
                      THEN /\ pc' = "error"
                           /\ op' = rec("append_error")
                           /\ chunk_data' = buf1
                           /\ chunk_data_offset' = off1
                           /\ UNCHANGED h5_files_list
                      ELSE /\ chunk_data' = AppendData(buf1, off1, n, data1)
                           /\ chunk_data_offset' = off1 + n
                           /\ h5_files_list' = Tail(l)
                           /\ op' = rec("append")
                           /\ pc' = IF stop0 \/ split # "none" THEN "save_chunk" ELSE "fill"
    /\ UNCHANGED <<cfg, pvars, restored, chunk_space, previous_chunk_time,
                   previous_chunk_data_offset, closed_by, env>>

\* ---------------------------------------------------------------- the flush
\* a flush that writes the whole buffer, blank columns included
CutChunkWhole(buf, offset) == buf

\* a flush that writes one column more than the cursor says
CutChunkOneMore(buf, offset) == SliceTo(buf, offset + 1)

\* _cut_chunk_to_size
CutChunkToSize(buf, offset) == SliceTo(buf, offset)

\* _save_chunk_data, lines 253-256: the chunk file is written
SaveChunkFile ==
    /\ pc = "save_chunk"
    /\ files' = (files \ ChunkFile(chunk_time))
                  \cup {MkFile(chunk_time,
                                CutChunkToSize(chunk_data, chunk_data_offset),
                                chunk_space)}
    /\ pc' = "save_remove_last"
    /\ op' = PlainOp("sink")
    /\ UNCHANGED <<cfg, last, carry_file, carry, restored, new_chunk,
                   chunk_time, chunk_named, chunk_to_next_day, chunk_data_offset,
                   till_next_chunk, time_offset, chunk_data, chunk_space, h5_files_list,
                   previous_chunk_time, previous_chunk_data_offset, closing, closed_by, env>>

\* _save_chunk_data, lines 257-259: the old checkpoint is removed
SaveRemoveLast ==
    /\ pc = "save_remove_last"
    /\ last' = NoLast
    /\ pc' = "save_last"
    /\ op' = PlainOp("remove_last")
    /\ UNCHANGED <<cfg, carry_file, files, carry, restored, new_chunk,
                   chunk_time, chunk_named, chunk_to_next_day, chunk_data_offset,
                   till_next_chunk, time_offset, chunk_data, chunk_space, h5_files_list,
                   previous_chunk_time, previous_chunk_data_offset, closing, closed_by, env>>

\* a flush that leaves no checkpoint behind
LastRemoved(ct, off) == NoLast

\* the two lines written to "last" (lines 261-262)
LastRecord(ct, off) == [present |-> TRUE, ct |-> ct, off |-> off]

\* _save_chunk_data, lines 261-262: the new checkpoint is written
SaveLast ==
    /\ pc = "save_last"
    /\ last' = LastRecord(chunk_time, chunk_data_offset)
    /\ pc' = "save_carry"
    /\ op' = PlainOp("write_last")
    /\ closed_by' = closing
    /\ UNCHANGED <<cfg, carry_file, files, carry, restored, new_chunk,
                   chunk_time, chunk_named, chunk_to_next_day, chunk_data_offset,
                   till_next_chunk, time_offset, chunk_data, chunk_space, h5_files_list,
                   previous_chunk_time, previous_chunk_data_offset, closing, env>>

\* _save_chunk_data, lines 263-265, and _concat_files, lines 739-740
SaveCarry ==
    /\ pc = "save_carry"
    /\ carry_file' = IF carry.present THEN carry ELSE carry_file
    /\ previous_chunk_time' = chunk_time
    /\ previous_chunk_data_offset' = chunk_data_offset
    /\ pc' = "loop"
    /\ op' = PlainOp("flushed")
    /\ UNCHANGED <<cfg, last, files, carry, restored, new_chunk,
                   chunk_time, chunk_named, chunk_to_next_day, chunk_data_offset,
                   till_next_chunk, time_offset, chunk_data, chunk_space, h5_files_list,
                   closing, closed_by, env>>

\* ---------------------------------------------------------------- the environment
\* the process is killed in the middle of a run and started again
Kill ==
    /\ pc \notin {"start", "done", "error"}
    /\ kills < MaxKills
    /\ kills' = kills + 1
    /\ NewProcess
    /\ op' = PlainOp("kill")
    /\ phase = "real"
    /\ UNCHANGED <<cfg, pvars, closed_by, golden, phase, reruns, faults>>

\* the engine is run again after a run has ended, by itself or with an error
Rerun ==
    /\ pc \in {"done", "error"}
    /\ reruns < MaxReruns
    /\ reruns' = reruns + 1
    /\ NewProcess
    /\ op' = PlainOp("rerun")
    /\ phase = "real"
    /\ UNCHANGED <<cfg, pvars, closed_by, golden, phase, kills, faults>>

Next ==
    \/ GetPreviousFileData
    \/ RemoveCarryFile
    \/ GetFiles
    \/ GetChunkData
    \/ FillChunkData
    \/ SaveChunkFile
    \/ SaveRemoveLast
    \/ SaveLast
    \/ SaveCarry
    \/ Kill
    \/ Rerun

Spec == Init /\ [][Next]_vars

\* ---------------------------------------------------------------- two runs
\* The same input is first processed by a run that nothing interrupts; what it
\* leaves under SAVE_PATH is kept in golden, SAVE_PATH is emptied, and the
\* input is processed again by runs that may be killed and started again.
EndReference ==
    /\ phase = "reference"
    /\ pc \in {"done", "error"}
    /\ golden' = [set |-> TRUE, ended |-> pc, last |-> last, carry_file |-> carry_file,
                  files |-> files]
    /\ phase' = "real"
    /\ last' = NoLast
    /\ carry_file' = NoCarry
    /\ files' = {}
    /\ closed_by' = NoClosing
    /\ NewProcess
    /\ op' = PlainOp("reference_done")
    /\ UNCHANGED <<cfg, kills, reruns, faults>>

\* integral time stamps, as the file names of Mekorot without a time offset
TwinLists == { p \in PacketLists : \A i \in 1..NPackets : p[i].frac = 0 }

InitTwin ==
    /\ system = "Mekorot"
    /\ SPS = 2
    /\ packets \in TwinLists
    /\ OneDirectory
    /\ last = NoLast
    /\ carry_file = NoCarry
    /\ files = {}
    /\ FreshProcess
    /\ op = NoOp
    /\ closed_by = NoClosing
    /\ golden = NoGolden
    /\ phase = "reference"
    /\ kills = 0
    /\ reruns = 0
    /\ NoFaultyInput

NextTwin == Next \/ EndReference

SpecTwin == InitTwin /\ [][NextTwin]_vars

\* ---------------------------------------------------------------- faults
\* The input may hold a packet that cannot be read or packets of another
\* channel count, the write of a chunk file may fail, and a chunk file may be
\* removed from SAVE_PATH between two runs.

\* _save_chunk_data, lines 253-254: h5py.File raises, nothing is written and
\* the run ends with the error
SinkFails ==
    /\ pc = "save_chunk"
    /\ phase = "real"
    /\ faults.n < MaxFaults
    /\ faults' = [n |-> faults.n + 1,
                  failed |-> MkFile(chunk_time,
                                    CutChunkToSize(chunk_data, chunk_data_offset),
                                    chunk_space),
                  run |-> reruns,
                  kills |-> kills]
    /\ pc' = "error"
    /\ op' = PlainOp("sink_error")
    /\ UNCHANGED <<cfg, pvars, carry, restored, new_chunk, chunk_time, chunk_named,
                   chunk_to_next_day, chunk_data_offset, till_next_chunk, time_offset,
                   chunk_data, chunk_space, h5_files_list, previous_chunk_time,
                   previous_chunk_data_offset, closing, closed_by, golden, phase,
                   kills, reruns>>

\* before a run starts, the chunk file the checkpoint names is removed
LoseChunkFile ==
    /\ pc = "start"
    /\ phase = "real"
    /\ faults.n < MaxFaults
    /\ last.present
    /\ ChunkFile(last.ct) # {}
    /\ files' = files \ ChunkFile(last.ct)
    /\ faults' = [faults EXCEPT !.n = faults.n + 1]
    /\ op' = PlainOp("lose_file")
    /\ UNCHANGED <<cfg, last, carry_file, qvars, closed_by, golden, phase, kills, reruns>>

\* the channels of the packets: the same for all, or another count from packet k on
SpaceFrom(k) == [i \in 1..NPackets |-> IF i < k THEN SPACE_SAMPLES ELSE OtherSpace]

\* the inputs with at most one irregularity: one packet that cannot be read, or
\* one change of the channel count
FaultyInputs ==
    { [space |-> SpaceFrom(NPackets + 1), unreadable |-> u] :
        u \in {{}} \cup { {k} : k \in 1..NPackets } }
    \cup { [space |-> SpaceFrom(k), unreadable |-> {}] : k \in 2..NPackets }

InitFaults ==
    /\ system = "Mekorot"
    /\ SPS = 2
    /\ packets \in TwinLists
    /\ OneDirectory
    /\ \E x \in FaultyInputs : space = x.space /\ unreadable = x.unreadable
    /\ faults = NoFaults
    /\ last = NoLast
    /\ carry_file = NoCarry
    /\ files = {}
    /\ FreshProcess
    /\ op = NoOp
    /\ closed_by = NoClosing
    /\ golden = NoGolden
    /\ phase = "real"
    /\ kills = 0
    /\ reruns = 0

NextFaults == Next \/ SinkFails \/ LoseChunkFile

SpecFaults == InitFaults /\ [][NextFaults]_vars

\* ---------------------------------------------------------------- properties
\* the input samples: column c of packet p
Samples == { <<p, c>> : p \in 1..NPackets, c \in 1..TIME_SAMPLES }
\* the time sample s was taken
SampleTime(s) == PacketTime(s[1]) + ColsToTicks(s[2] - 1)
\* the places <<chunk time, column>> of the emitted chunks that hold sample s
InFiles(s) ==
    UNION { { <<f.ct, i>> : i \in { j \in 1..Len(f.data) : f.data[j] = s } } : f \in files }
\* the columns of the carry file that hold sample s
InCarry(s) ==
    IF carry_file.present
    THEN { i \in 1..Len(carry_file.cells) : carry_file.cells[i] = s }
    ELSE {}
\* each packet starts where the previous one ends
Contiguous ==
    \A i \in 1..(NPackets - 1) : PacketTime(i + 1) = PacketTime(i) + TIME_SECONDS * TPS
Abs(x) == IF x < 0 THEN -x ELSE x
\* the last step went through the append path of _fill_chunk_data
IsFill == op.kind \in {"append", "time_inconsistency", "append_error"}
\* the last step copied at least one column of a packet into the buffer
Appended == op.kind = "append" /\ op.end > op.start
\* the first UTC midnight strictly after time t
DayEnd(t) == CHOOSE m \in { k * DAY * TPS : k \in 1..3 } :
                m > t /\ m - t <= DAY * TPS

\* C1: across runs, restarts included, no input sample is written twice: every
\* (packet, column) pair is in at most one column of at most one emitted chunk.
NoSampleTwice == \A s \in Samples : Cardinality(InFiles(s)) <= 1

\* C2: for a gap-free stream and an uninterrupted run, once the input is
\* exhausted every sample is present exactly once, in an emitted chunk or in the
\* persisted carry, and a sample in a chunk is at column
\* SPS x (sample_time - chunk.origin_time).
GapFreeExactlyOnce ==
    (Contiguous /\ pc = "done" /\ kills = 0 /\ reruns = 0) =>
        \A s \in Samples :
            /\ Cardinality(InFiles(s)) + Cardinality(InCarry(s)) = 1
            /\ \A x \in InFiles(s) : ColsToTicks(x[2] - 1) = SampleTime(s) - x[1]

\* C3: no append is executed when the packet's first kept sample is more than
\* 0.5 s later, or more than 0.5 s earlier, than the absolute time of the cursor.
TimeCheckBothDirections ==
    Appended => 2 * Abs(op.cursor - (op.ts + ColsToTicks(op.start))) <= TPS

\* C4: the chunk opened after a chunk that a gap closed has no carry, has the
\* time stamp of the packet after the gap as its origin and starts at cursor 0,
\* also when the last packet before the gap crossed a chunk or day boundary.
GapOpensAtPacket ==
    (op.kind = "append" /\ op.opened /\ closed_by.next = "gap") =>
        (~op.withCarry /\ chunk_time = op.ts /\ op.cursor = op.ts)

\* C5: at every chunk open, in the same run or after a restart, a carry is
\* present if and only if the immediately preceding chunk closed by splitting a
\* packet at the day boundary or at the chunk boundary.
CarryIffSplit ==
    (IsFill /\ op.opened) => (op.withCarry <=> closed_by.split # "none")

\* C6: when the uninterrupted run over the packet list ends normally, the runs
\* over the same list in which the process is killed once and started again end
\* with the same emitted chunks: origins, column counts and contents.
KilledRunSameChunks ==
    (phase = "real" /\ golden.set /\ golden.ended = "done" /\ reruns = 0
       /\ pc \in {"done", "error"}) => files = golden.files

\* C7: on startup with a checkpoint (ct, cur): if cur = SPS x CHUNK_SIZE or
\* ct + cur/SPS is at or after the midnight after ct, no chunk is restored and
\* the carry is the carry file's content if there is one; otherwise the chunk
\* file of ct is reloaded, padded with blank columns to SPS x CHUNK_SIZE, and
\* filling resumes with chunk_time = ct and cursor = cur. With no
\* checkpoint the engine starts with no carry and restores nothing. The first
\* chunk of a run that restores nothing starts at cursor 0.
StartupProtocol ==
    /\ op.kind = "startup" =>
          IF ~last.present
          THEN ~restored /\ ~carry.present
          ELSE IF \/ last.off = SPS * CHUNK_SIZE
                  \/ last.ct + last.off * SubTicks >= DayEnd(last.ct)
          THEN /\ ~restored
               /\ carry.present = carry_file.present
               /\ carry.present => carry.cells = carry_file.cells
          ELSE restored /\ ~carry.present
    /\ op.kind = "restore" =>
          /\ last.present
          /\ last.off # SPS * CHUNK_SIZE
          /\ last.ct + last.off * SubTicks < DayEnd(last.ct)
          /\ chunk_time = last.ct
          /\ chunk_data_offset = last.off
          /\ Len(chunk_data) = SPS * CHUNK_SIZE
          /\ \E f \in files :
                /\ f.ct = last.ct
                /\ \A i \in 1..Len(chunk_data) :
                      chunk_data[i] = IF i <= Len(f.data) THEN f.data[i] ELSE Blank
    /\ op.kind # "restore_missing"
    /\ (op.kind = "allocate" /\ closing = NoClosing) =>
          /\ chunk_data_offset = 0
          /\ last.present =>
                \/ last.off = SPS * CHUNK_SIZE
                \/ last.ct + last.off * SubTicks >= DayEnd(last.ct)

\* a run resumes a chunk that was left partly filled before the day's end
StartupRestores ==
    /\ op.kind = "restore"
    /\ chunk_data_offset > 0
    /\ chunk_data_offset < FullCols
    /\ \E f \in files : f.ct = chunk_time /\ Len(f.data) < FullCols

\* C8: after every successful chunk flush either cursor = SPS x CHUNK_SIZE or
\* origin_time + cursor/SPS is the UTC midnight strictly after origin_time.
FlushFullOrDayEnd ==
    op.kind = "flushed" =>
        \/ chunk_data_offset = FullCols
        \/ chunk_time + ColsToTicks(chunk_data_offset) = DayEnd(chunk_time)

\* C9: in every reachable state 0 <= cursor <= SPS x CHUNK_SIZE, and every
\* chunk handed to the sink has at most SPS x CHUNK_SIZE columns.
CursorInRange ==
    /\ chunk_data_offset >= 0
    /\ chunk_data_offset <= FullCols
    /\ \A f \in files : Len(f.data) <= FullCols

\* C10: every emitted chunk ends no later than the first UTC midnight after its
\* origin, whatever the sub-second fraction of the origin.
ChunkEndsByMidnight ==
    \A f \in files : f.ct + ColsToTicks(Len(f.data)) <= DayEnd(f.ct)

\* C11: the time ranges of two emitted chunks do not overlap: the chunk with
\* the later origin starts at or after the end of the chunk with the earlier
\* origin, origin_time + columns/SPS, also after the drift correction of a new
\* chunk's time.
ChunksDoNotOverlap ==
    \A f \in files : \A g \in files :
        f.ct < g.ct => g.ct >= f.ct + ColsToTicks(Len(f.data))

\* chunk_time + cursor/SPS: the absolute time of the next sample slot
SlotTime == chunk_time + ColsToTicks(chunk_data_offset)
\* the end of the chunk flushed before the current one (or of the checkpoint)
PreviousEnd == previous_chunk_time + ColsToTicks(previous_chunk_data_offset)

\* C12: the absolute time of the next sample slot never decreases: after an
\* append it is at or after the slot time the append started from, and a newly
\* opened chunk, with or without carry and after the drift correction, starts
\* at or after the end of the chunk before it.
SlotTimeNeverDecreases ==
    op.kind = "append" =>
        /\ SlotTime >= op.cursor
        /\ op.opened => chunk_time >= PreviousEnd

(***************************************************************************)
(* Several input directories.  _get_files sorts the packets of one         *)
(* directory by time stamp, and walks the directories by name (Mekorot) or *)
(* by modification time (Prisma): across directories the list may step     *)
(* back in time.                                                           *)
(***************************************************************************)
\* bound: the backward step between two directories, in seconds
MaxBack == 3

DirDiffs == {TIME_SECONDS, -MaxBack}

DirLists ==
    { MkPackets(lead, d, [i \in 1..NPackets |-> 0]) :
        lead \in Leads, d \in [1..(NPackets - 1) -> DirDiffs] }

\* the directory of packet i when the directories end after the packets of C
DirOf(C, i) == 1 + Cardinality({ c \in C : c < i })

DirSplit(C) ==
    [k \in 1..(Cardinality(C) + 1) |-> { i \in 1..NPackets : DirOf(C, i) = k }]

\* the ways to spread the files over directories that are walked one after the
\* other
DirSplits == { DirSplit(C) : C \in SUBSET (1..(NPackets - 1)) }

InitDirs ==
    /\ system \in Systems
    /\ SPS \in Rates
    /\ packets \in DirLists
    /\ dirs \in DirSplits
    /\ resampler = NoResampler
    /\ executor = NoExecutor
    /\ legacy = NoLegacy
    /\ last = NoLast
    /\ carry_file = NoCarry
    /\ files = {}
    /\ FreshProcess
    /\ op = NoOp
    /\ closed_by = NoClosing
    /\ golden = NoGolden
    /\ phase = "real"
    /\ kills = 0
    /\ reruns = 0
    /\ NoFaultyInput

SpecDirs == InitDirs /\ [][Next]_vars

\* C13: every iteration of the fill loop either removes one packet from the
\* pending list or leaves the loop (the chunk is closed or the run stops), so
\* that a finite input is consumed in finitely many iterations.
FillIterationProgresses ==
    [][pc = "fill" =>
          (Len(h5_files_list') < Len(h5_files_list) \/ pc' # "fill")]_vars

\* the flush that has just ended closed a chunk because the pending list ran
\* out, while the chunk was neither full nor at the end of its day
ExhaustedPartial ==
    /\ closed_by.next = "last"
    /\ closed_by.split = "none"
    /\ h5_files_list = << >>
    /\ chunk_data_offset < FullCols
    /\ SlotTime # DayEnd(chunk_time)

\* C14 (as stated): when the packet source is exhausted while the chunk is
\* neither full nor at the day boundary, the chunk in progress is not written to
\* the sink.
ExhaustedChunkNotFlushed ==
    ~(op.kind = "flushed" /\ ExhaustedPartial /\ \E f \in files : f.ct = chunk_time)

\* C14 (amended): when the packet source is exhausted while the chunk is neither
\* full nor at the day boundary, the chunk in progress is written to the sink
\* with the columns filled so far, the checkpoint holds its (origin_time,
\* cursor), which startup reads as an unfinished chunk, and a run that restores
\* after it resumes that chunk at that cursor with those columns of the file.
ExhaustedChunkFlushedAndResumed ==
    /\ (op.kind = "flushed" /\ ExhaustedPartial) =>
          /\ chunk_data_offset > 0
          /\ last = [present |-> TRUE, ct |-> chunk_time, off |-> chunk_data_offset]
          /\ \E f \in files : f.ct = chunk_time /\ Len(f.data) = chunk_data_offset
          /\ ~CheckpointClosed(last.ct, last.off)
    /\ (op.kind = "restore" /\ closed_by.next = "last" /\ closed_by.split = "none") =>
          /\ chunk_time = last.ct
          /\ chunk_data_offset = last.off
          /\ \E f \in files :
                /\ f.ct = chunk_time
                /\ Len(f.data) >= chunk_data_offset
                /\ \A i \in 1..chunk_data_offset : chunk_data[i] = f.data[i]

\* a run has flushed a partly filled chunk at the end of the input
ExhaustedChunkFlushed ==
    /\ op.kind = "flushed"
    /\ ExhaustedPartial
    /\ chunk_data_offset > 0
    /\ \E f \in files : f.ct = chunk_time /\ Len(f.data) = chunk_data_offset

UnreadablePacketSkipped ==
    [][(pc = "fill" /\ Head(h5_files_list) \in unreadable)
          => /\ pc' \in {"fill", "save_chunk", "start"}
             /\ pc' # "start" => h5_files_list' = Tail(h5_files_list)]_vars

\* C17: when the packet at the head of the pending list has another channel
\* count than the chunk in progress, the chunk is flushed with the columns
\* written so far, no carry is kept, the packet stays in the list, and the next
\* chunk is opened at the time stamp of that packet and takes it; the run does
\* not end on the channel change, neither at the restore of the chunk nor at
\* the carry of the chunk before.
ChannelChangeOpensNewChunk ==
    /\ op.kind = "mismatch" =>
          /\ pc = "save_chunk"
          /\ Head(h5_files_list) = op.pkt
          /\ ~carry.present
          /\ chunk_data_offset > 0
    /\ (op.kind = "flushed" /\ closed_by.next = "mismatch") =>
          /\ \E f \in files : f.ct = chunk_time /\ Len(f.data) = chunk_data_offset
          /\ h5_files_list # << >>
          /\ space[Head(h5_files_list)] # chunk_space
    /\ (op.kind = "append" /\ op.opened /\ closed_by.next = "mismatch") =>
          /\ chunk_time = op.ts
          /\ ~op.withCarry
          /\ space[op.pkt] = chunk_space
    /\ op.kind \notin {"restore_error", "carry_error"}

\* the write of a chunk file has failed in an earlier run, and no process was
\* killed since
RetriedAfterSinkFailure ==
    /\ faults.failed # NoFile
    /\ reruns > faults.run
    /\ kills = faults.kills

\* C18: when the write of a chunk file fails the run ends with the error, the
\* checkpoint keeps the value it had before this flush, and the next run
\* produces the chunk that failed, with the same columns, the columns of its
\* carry included.
SinkFailureRetried ==
    /\ op.kind = "sink_error" =>
          /\ pc = "error"
          /\ last.present =>
                /\ last.ct = previous_chunk_time
                /\ last.off = previous_chunk_data_offset
          /\ ~last.present => previous_chunk_time = 0
    /\ (pc = "done" /\ RetriedAfterSinkFailure) => faults.failed \in files

\* C19: the checkpoint is replaced atomically: once the file "last" has been
\* written, no step of a flush, and so no kill between two steps, leaves
\* SAVE_PATH without a checkpoint.
CheckpointNeverAbsent == [][last.present => last'.present]_vars

\* C20: after every flush that has ended, the checkpoint is the (origin_time,
\* cursor) of the chunk just flushed and the chunk file named by that origin
\* holds exactly cursor columns.
CheckpointMatchesChunkFile ==
    op.kind = "flushed" =>
        /\ last = [present |-> TRUE, ct |-> chunk_time, off |-> chunk_data_offset]
        /\ \E f \in files : f.ct = last.ct /\ Len(f.data) = last.off

(***************************************************************************)
(* Inputs that start early enough before midnight for the last packet to   *)
(* end the day: the run consumes the whole input of the day.               *)
(***************************************************************************)
\* bound: the first packet starts at most MaxDayLead seconds before midnight
MaxDayLead == 8

DayLeads == (MaxLead + 1)..MaxDayLead

DayLists ==
    { MkPackets(lead, d, [i \in 1..NPackets |-> 0]) :
        lead \in DayLeads, d \in [1..(NPackets - 1) -> Diffs] }

InitDay ==
    /\ system \in Systems
    /\ SPS \in Rates
    /\ packets \in DayLists
    /\ OneDirectory
    /\ last = NoLast
    /\ carry_file = NoCarry
    /\ files = {}
    /\ FreshProcess
    /\ op = NoOp
    /\ closed_by = NoClosing
    /\ golden = NoGolden
    /\ phase = "real"
    /\ kills = 0
    /\ reruns = 0
    /\ NoFaultyInput

SpecDay == InitDay /\ [][Next]_vars

\* a run has ended after it flushed, at the end of the day, the chunk that
\* holds the last packet, with nothing left for a carry
DayCompleted ==
    /\ pc = "done"
    /\ op.kind = "finished"
    /\ chunk_data_offset > 0
    /\ SlotTime = DayEnd(chunk_time)
    /\ ~carry.present

\* C21 (as stated): on the clean completion of a day the checkpoint is removed.
CheckpointRemovedAtDayEnd == DayCompleted => ~last.present

\* C21 (amended): on the clean completion of a day the checkpoint is kept: it
\* is the (origin_time, cursor) of the last chunk of the day, and the startup
\* of the next run reads it as a closed chunk, which is not restored.
CheckpointKeptAtDayEnd ==
    /\ DayCompleted =>
          /\ last = [present |-> TRUE, ct |-> chunk_time, off |-> chunk_data_offset]
          /\ CheckpointClosed(last.ct, last.off)
    /\ (op.kind = "startup" /\ last.present
           /\ last.ct + ColsToTicks(last.off) = DayEnd(last.ct)) =>
          /\ ~restored
          /\ previous_chunk_time = last.ct
          /\ previous_chunk_data_offset = last.off

\* a day has been completed and its checkpoint is on disk
DayCompletedWithCheckpoint == DayCompleted /\ last.present

\* C22: the pending list is in non-decreasing order of time stamps, also when
\* the packets come from several directories.
ListInTimeOrder ==
    \A i \in 1..Len(h5_files_list) : \A j \in 1..Len(h5_files_list) :
        i < j => PacketTime(h5_files_list[i]) <= PacketTime(h5_files_list[j])

\* ---------------------------------------------------------------- _resample_data
\* config.py: the channel pitch of the output, in the unit of the native pitch
DX == 2
\* bounds of the resampler's inputs: rows, columns, native rates and pitches
MaxRows == 6
MaxColumns == 6
MaxNativeRate == 6
MaxNativePitch == 6

\* the shapes (space samples, time samples) of the matrices read from a file
Shapes == {<<2, 4>>, <<4, 4>>, <<4, MaxColumns>>, <<MaxRows, MaxColumns>>}
NativeRates == 1..MaxNativeRate
NativePitches == DX..MaxNativePitch

\* the matrix of a file: every cell has its own value, a multiple of 60 so
\* that the mean of up to MaxNativeRate cells is a whole number
RawMatrix(S, T) == [r \in 1..S |-> [c \in 1..T |-> 60 * (10 * r + c)]]

RECURSIVE SumTo(_, _, _)
SumTo(row, a, b) == IF a > b THEN 0 ELSE row[a] + SumTo(row, a + 1, b)

\* data.reshape(data.shape[0], -1, f) and the mean over the last axis:
\* the mean of each group of f consecutive cells of a row
MultithreadedMean(data, f) ==
    [r \in 1..Len(data) |->
        [k \in 1..(Len(data[r]) \div f) |->
            SumTo(data[r], (k - 1) * f + 1, k * f) \div f]]

\* data[:, ::f]: every f-th cell of the second axis, from the first one on
EveryNthOfAxis1(data, f) ==
    [r \in 1..Len(data) |->
        [k \in 1..((Len(data[r]) + f - 1) \div f) |-> data[r][(k - 1) * f + 1]]]

\* reshape raises ValueError when the second axis is not a multiple of f
ReshapeFails(data, f) == \E r \in 1..Len(data) : Len(data[r]) % f # 0

\* the time half of _resample_data
ResampleTime(x) ==
    IF x.sps >= 2 * SPS
    THEN IF ReshapeFails(x.data, x.sps \div SPS)
         THEN [x EXCEPT !.state = "error"]
         ELSE [x EXCEPT !.data = MultithreadedMean(x.data, x.sps \div SPS),
                        !.sps = SPS]
    ELSE x

\* the space half of _resample_data
ResampleSpace(x) ==
    IF x.state # "error" /\ x.dx >= 2 * DX
    THEN [x EXCEPT !.data = EveryNthOfAxis1(x.data, x.dx \div DX), !.dx = DX]
    ELSE x

ResampleData(x) == ResampleSpace(ResampleTime(x))

\* _data_preprocess: the file's matrix, its rate and pitch, after the call
DataPreprocessed(x) ==
    LET y == IF SPS # x.sps \/ DX # x.dx THEN ResampleData(x) ELSE x
    IN  IF y.state = "error" THEN y ELSE [y EXCEPT !.state = "done"]

\* data.shape[0] and data.shape[1]
Rows(data) == Len(data)
Columns(data) == IF Len(data) = 0 THEN 0 ELSE Len(data[1])

InitResample ==
    /\ system = "Mekorot"
    /\ SPS \in Rates
    /\ packets = CHOOSE P \in TwinLists : TRUE
    /\ dirs = << 1..NPackets >>
    /\ \E sh \in Shapes, r \in NativeRates, p \in NativePitches :
           resampler = [file |-> [data |-> RawMatrix(sh[1], sh[2]),
                                  sps |-> r, dx |-> p],
                        data |-> RawMatrix(sh[1], sh[2]), sps |-> r, dx |-> p,
                        state |-> "raw"]
    /\ executor = NoExecutor
    /\ legacy = NoLegacy
    /\ last = NoLast
    /\ carry_file = NoCarry
    /\ files = {}
    /\ FreshProcess
    /\ op = NoOp
    /\ closed_by = NoClosing
    /\ golden = NoGolden
    /\ phase = "real"
    /\ kills = 0
    /\ reruns = 0
    /\ NoFaultyInput

\* _read_data: data = self._data_preprocess(data, file_name)
DataPreprocess ==
    /\ resampler.state = "raw"
    /\ resampler' = DataPreprocessed(resampler)
    /\ UNCHANGED <<system, SPS, packets, dirs, space, unreadable, executor, legacy>>
    /\ UNCHANGED <<pvars, qvars, hvars>>

NextResample == DataPreprocess

SpecResample == InitResample /\ [][NextResample]_vars

\* the factors of a file are whole numbers, at least 2, and divide its shape
TimeFactor(f) == f.sps \div SPS
SpaceFactor(f) == f.dx \div DX
WholeFactors(f) ==
    /\ f.sps % SPS = 0 /\ TimeFactor(f) >= 2
    /\ f.dx % DX = 0 /\ SpaceFactor(f) >= 2
    /\ Columns(f.data) % TimeFactor(f) = 0
    /\ Rows(f.data) % SpaceFactor(f) = 0

\* C23: a matrix (S_in, T_in) whose time factor f_t and space factor f_s are
\* whole numbers of at least 2 comes out of the resampler with the shape
\* (S_in / f_s, T_in / f_t): every cell is the mean of f_t consecutive
\* samples of one of every f_s-th row of the file.
ResampledShapeAndValues ==
    (resampler.state # "raw" /\ resampler.state # "none"
        /\ WholeFactors(resampler.file)) =>
        LET f == resampler.file
            ft == TimeFactor(f)
            fs == SpaceFactor(f)
        IN  /\ resampler.state = "done"
            /\ Rows(resampler.data) = Rows(f.data) \div fs
            /\ \A r \in 1..Rows(resampler.data) :
                 /\ Len(resampler.data[r]) = Columns(f.data) \div ft
                 /\ \A c \in 1..Len(resampler.data[r]) :
                      resampler.data[r][c] =
                          SumTo(f.data[(r - 1) * fs + 1], (c - 1) * ft + 1, c * ft)
                              \div ft

\* a ratio of the file is not a whole number, or both ratios are below 2
FractionalFactor(f) == f.sps % SPS # 0 \/ f.dx % DX # 0
BothFactorsBelowTwo(f) == f.sps < 2 * SPS /\ f.dx < 2 * DX

\* C24: a packet whose rate ratio or pitch ratio is not a whole number, or
\* whose ratios are both below 2, passes through unchanged: the matrix, the
\* recorded sample rate and the recorded pitch are those of the file.
FractionalRatioPassesThrough ==
    (resampler.state # "raw" /\ resampler.state # "none"
        /\ (FractionalFactor(resampler.file)
                \/ BothFactorsBelowTwo(resampler.file))) =>
        /\ resampler.state = "done"
        /\ resampler.data = resampler.file.data
        /\ resampler.sps = resampler.file.sps
        /\ resampler.dx = resampler.file.dx

\* ---------------------------------------------------------------- a kill between packets
\* the list _get_files makes for a process that starts from what is persisted
RestartList == IF last.present THEN GetFilesList(last.ct, last.off)
                               ELSE GetFilesList(0, 0)
\* the packets with a column in the buffer that no chunk file holds: the work
\* of the process that only its memory has
BufferedPackets ==
    { p \in 1..NPackets :
        \E c \in 1..TIME_SAMPLES :
            /\ \E k \in 1..Len(chunk_data) :
                   k <= chunk_data_offset /\ chunk_data[k] = <<p, c>>
            /\ InFiles(<<p, c>>) = {} }
\* the packets already appended that a restarted process reads again
ReadAgain ==
    { p \in BufferedPackets :
        /\ \A k \in 1..Len(h5_files_list) : h5_files_list[k] # p
        /\ \E k \in 1..Len(RestartList) : RestartList[k] = p }

\* C25: a kill between two packets loses the work of at most one packet: the
\* restarted process reads again at most one of the packets that had been
\* appended to the current chunk.
KillLosesAtMostOnePacket ==
    [][(pc = "fill" /\ kills' = kills + 1) => Cardinality(ReadAgain) <= 1]_vars

\* ---------------------------------------------------------------- the same start twice
\* A run, which may be killed or run again, leaves some persisted state.  From
\* that state the engine is run to its end; the state is put back and the
\* engine is run to its end again, on the same packets.

\* the persisted state a process is about to start from is kept
StartFirst ==
    /\ phase = "real"
    /\ pc = "start"
    /\ golden' = [set |-> FALSE, ended |-> "start", last |-> last,
                  carry_file |-> carry_file, files |-> files]
    /\ phase' = "first"
    /\ op' = PlainOp("first")
    /\ UNCHANGED <<cfg, pvars, qvars, closed_by, kills, reruns, faults>>

\* the first execution has ended: what it leaves is kept, and the second
\* execution starts from the persisted state the first one started from
EndFirst ==
    /\ phase = "first"
    /\ pc \in {"done", "error"}
    /\ golden' = [set |-> TRUE, ended |-> pc, last |-> last,
                  carry_file |-> carry_file, files |-> files]
    /\ phase' = "second"
    /\ last' = golden.last
    /\ carry_file' = golden.carry_file
    /\ files' = golden.files
    /\ closed_by' = NoClosing
    /\ NewProcess
    /\ op' = PlainOp("second")
    /\ UNCHANGED <<cfg, kills, reruns, faults>>

InitAgain ==
    /\ system \in Systems
    /\ SPS \in Rates
    /\ packets \in TwinLists
    /\ OneDirectory
    /\ last = NoLast
    /\ carry_file = NoCarry
    /\ files = {}
    /\ FreshProcess
    /\ op = NoOp
    /\ closed_by = NoClosing
    /\ golden = NoGolden
    /\ phase = "real"
    /\ kills = 0
    /\ reruns = 0
    /\ NoFaultyInput

NextAgain == Next \/ StartFirst \/ EndFirst

SpecAgain == InitAgain /\ [][NextAgain]_vars

\* the cells of the buffer of _allocate_empty_chunk (np.empty) that no packet
\* was written to hold whatever the memory held: the chunk files and the carry
\* file hold none of them
NoUnwrittenCellEmitted ==
    /\ \A f \in files : \A k \in 1..Len(f.data) : f.data[k] # Blank
    /\ carry_file.present =>
           \A k \in 1..Len(carry_file.cells) : carry_file.cells[k] # Blank

SkippedPacketDiscarded ==
    [][(pc = "fill" /\ op'.kind = "skip") =>
           /\ h5_files_list' = Tail(h5_files_list)
           /\ chunk_data_offset' = chunk_data_offset
           /\ files' = files]_vars

\* ---------------------------------------------------------------- the splits
\* the last step appended a packet that was cut at the boundary b
SplitAt(b) == op.kind = "append" /\ op.split = b
\* the columns the last step appended
AppendedColumns == op.end - op.start
\* the columns of the packet of the last step that were its to give: what
\* _get_next_packet_data returned, less the columns trimmed at the front
UsableColumns ==
    Len(NextPacketData(<<op.pkt>> \o h5_files_list, time_offset)) - op.start

\* C28: when a packet crosses the midnight after chunk_time, exactly the
\* columns up to midnight are appended, so that the chunk ends at midnight;
\* the rest of the packet is the carry, appended columns plus carry columns
\* being the usable columns of the packet; and the chunk opened with that
\* carry starts at midnight.  Trimmed at the front or not.
DaySplitEndsAtMidnight ==
    /\ SplitAt("day") =>
        /\ ColsToTicks(AppendedColumns) = DayEnd(chunk_time) - op.cursor
        /\ chunk_time + ColsToTicks(chunk_data_offset) = DayEnd(chunk_time)
        /\ carry.present
        /\ AppendedColumns + Len(carry.cells) = UsableColumns
    /\ (op.kind = "append" /\ op.opened /\ op.withCarry
           /\ closed_by.split = "day" /\ kills = 0 /\ reruns = 0) =>
        chunk_time = DayEnd(previous_chunk_time)

\* C29: when a packet crosses the end of the chunk and not the end of the
\* day, the chunk is flushed with exactly SPS x CHUNK_SIZE columns and the
\* carry holds exactly the rest of the packet, trimmed at the front or not; a
\* packet that ends exactly at the end of the chunk is appended whole and
\* leaves no carry of its own.
ChunkSplitFillsChunk ==
    /\ SplitAt("chunk") =>
        /\ chunk_data_offset = FullCols
        /\ carry.present
        /\ AppendedColumns + Len(carry.cells) = UsableColumns
    /\ (op.kind = "append" /\ op.split = "none" /\ UsableColumns > 0
           /\ op.cursor + ColsToTicks(UsableColumns) = chunk_time + CHUNK_SIZE * TPS) =>
        /\ AppendedColumns = UsableColumns
        /\ chunk_data_offset = FullCols
        /\ ~carry.present

\* ---------------------------------------------------------------- a chunk opens
\* the time stamp of the packet at the head of the pending packets
HeadTimestamp ==
    FileTimestamp(Head(h5_files_list), AttrsTimeOffset(Head(h5_files_list)))
\* the step opens a new chunk on the packet at the head of the pending packets
OpensChunk ==
    /\ pc = "fill"
    /\ new_chunk
    /\ op'.opened
    /\ op'.kind \in {"append", "time_inconsistency", "append_error"}
\* the cursor of the new state before the columns of the packet were added
CursorAtOpen ==
    IF op'.kind = "append" THEN chunk_data_offset' - (op'.end - op'.start)
                           ELSE chunk_data_offset'

\* C30: when a new chunk opens on packet P: with a carry of k columns, the
\* carry is written at the columns [0, k), the cursor becomes k and chunk_time
\* is floor(previous_chunk_time + previous_cursor / SPS) plus the sub-second
\* part of P's time stamp; with no carry chunk_time is P's time stamp and the
\* cursor starts at 0.
NewChunkOpening ==
    [][OpensChunk =>
        IF carry.present
        THEN /\ chunk_time' =
                    Floor(previous_chunk_time
                              + ColsToTicks(previous_chunk_data_offset))
                        + (HeadTimestamp - Floor(HeadTimestamp))
             /\ CursorAtOpen = Len(carry.cells)
             /\ Len(chunk_data') >= Len(carry.cells)
             /\ \A k \in 1..Len(carry.cells) : chunk_data'[k] = carry.cells[k]
        ELSE /\ chunk_time' = HeadTimestamp
             /\ CursorAtOpen = 0]_vars

\* a chunk was opened with a carry on a packet whose time stamp has a
\* sub-second part, and the packet was appended after the carry
OpenedWithCarry ==
    /\ op.kind = "append"
    /\ op.opened
    /\ op.withCarry
    /\ op.ts # Floor(op.ts)
    /\ op.end > op.start
    /\ chunk_data_offset > op.end - op.start

\* ---------------------------------------------------------------- the front trim
\* the columns the step has appended, as they stand in the new buffer
AppendedCells ==
    LET n  == op'.end - op'.start
        c0 == chunk_data_offset' - n
    IN  IF n <= 0 THEN << >>
        ELSE [k \in 1..n |-> IF c0 + k \in 1..Len(chunk_data')
                             THEN chunk_data'[c0 + k] ELSE Blank]
\* the packet of the step as _get_next_packet_data returned it
StepPacketData == NextPacketData(h5_files_list, AttrsTimeOffset(Head(h5_files_list)))

\* C31: a packet that is not skipped and begins before the cursor's time loses
\* its first start_split = SPS x round(chunk_time + cursor/SPS - timestamp)
\* columns, and only the columns [start_split, end_split) of the packet are
\* appended at the cursor; a packet that begins at the cursor's time has
\* start_split = 0.
FrontTrimmedAppend ==
    [][(pc = "fill" /\ op'.kind = "append") =>
        LET lead == op'.cursor - HeadTimestamp
        IN  /\ op'.start = (IF lead > 0 THEN SPS * RoundSec(lead) ELSE 0)
            /\ AppendedCells = Slice(StepPacketData, op'.start, op'.end)]_vars

\* C32: within one chunk the cursor never decreases: every append has a width
\* end_split - start_split >= 0, also when a front-trimmed packet is cut at a
\* chunk or day boundary, and no column written before is changed by a later
\* append.
CursorMonotonic ==
    [][(pc = "fill" /\ op'.kind = "append") =>
        /\ op'.end - op'.start >= 0
        /\ ~new_chunk =>
            /\ chunk_data_offset' >= chunk_data_offset
            /\ \A k \in 1..Len(chunk_data) :
                   k <= chunk_data_offset => chunk_data'[k] = chunk_data[k]]_vars

\* ---------------------------------------------------------------- both boundaries
\* the cursor of the step before the columns of the packet are added, after a
\* carry was written
CursorBeforeAppend == (op'.cursor - chunk_time') \div SubTicks
\* the packet of the step crosses the end of the day and the end of the chunk
CrossesBoth ==
    /\ TillNextDay(chunk_to_next_day', CursorBeforeAppend) * SPS < Len(StepPacketData)
    /\ till_next_chunk' < Len(StepPacketData)

\* C33: a packet that crosses the end of the chunk and the end of the day is
\* split at the one that comes first: the appended columns fit into the
\* buffer, cursor + end_split - start_split <= SPS x CHUNK_SIZE, and the
\* append does not fail.
SplitAtFirstBoundary ==
    [][(pc = "fill" /\ op'.kind \in {"append", "append_error"} /\ CrossesBoth) =>
        /\ op'.kind = "append"
        /\ CursorBeforeAppend + op'.end - op'.start <= FullCols]_vars

\* ---------------------------------------------------------------- the input grows
\* The whole packet list is first processed by one run; what it leaves is kept
\* in golden and SAVE_PATH is emptied.  Then only the first packets of the
\* list are there: a run processes them and ends, the remaining packets
\* arrive, and a second run processes the directory again.

\* the run over the whole list has ended; a prefix of the list is left
EndWholeRun ==
    /\ phase = "reference"
    /\ pc \in {"done", "error"}
    /\ golden' = [set |-> TRUE, ended |-> pc, last |-> last,
                  carry_file |-> carry_file, files |-> files]
    /\ phase' = "prefix"
    /\ \E k \in 1..(NPackets - 1) : dirs' = << 1..k >>
    /\ last' = NoLast
    /\ carry_file' = NoCarry
    /\ files' = {}
    /\ closed_by' = NoClosing
    /\ NewProcess
    /\ op' = PlainOp("prefix")
    /\ UNCHANGED <<system, SPS, packets, space, unreadable, resampler, executor,
                   legacy,
                   kills, reruns, faults>>

\* the run over the prefix has ended; the remaining packets arrive and the
\* engine is run again
RestArrives ==
    /\ phase = "prefix"
    /\ pc = "done"
    /\ phase' = "rest"
    /\ dirs' = << 1..NPackets >>
    /\ NewProcess
    /\ op' = PlainOp("rest")
    /\ UNCHANGED <<system, SPS, packets, space, unreadable, resampler, executor,
                   legacy,
                   pvars, closed_by, golden, kills, reruns, faults>>

InitPrefix ==
    /\ system = "Mekorot"
    /\ SPS \in Rates
    /\ packets \in TwinLists
    /\ OneDirectory
    /\ last = NoLast
    /\ carry_file = NoCarry
    /\ files = {}
    /\ FreshProcess
    /\ op = NoOp
    /\ closed_by = NoClosing
    /\ golden = NoGolden
    /\ phase = "reference"
    /\ kills = 0
    /\ reruns = 0
    /\ NoFaultyInput

NextPrefix ==
    \/ GetPreviousFileData
    \/ RemoveCarryFile
    \/ GetFiles
    \/ GetChunkData
    \/ FillChunkData
    \/ SaveChunkFile
    \/ SaveRemoveLast
    \/ SaveLast
    \/ SaveCarry
    \/ EndWholeRun
    \/ RestArrives

SpecPrefix == InitPrefix /\ [][NextPrefix]_vars

\* C34: a run over a prefix of the sorted packet list and a second run after
\* the remaining packets have arrived leave the same chunks (origins, column
\* counts, the place of every sample) as one run over the whole list, also
\* when a gap lies between the last packet of the first run and the first
\* packet of the second.
PrefixThenRestSameChunks ==
    (phase = "rest" /\ pc \in {"done", "error"} /\ golden.set
        /\ golden.ended = "done") => files = golden.files

\* C35: a run that finds no new input packets changes nothing that is
\* persisted: no step of it changes the checkpoint, the carry file or a chunk
\* file.
NoInputRunChangesNothing ==
    [][(pc \in {"start", "remove_carry", "get_files"} /\ RestartList = << >>) =>
        (last' = last /\ carry_file' = carry_file /\ files' = files)]_vars

\* ---------------------------------------------------------------- the carry of the last run
\* the end of the carry loaded at startup: the end of the checkpoint's chunk
\* plus the columns of the carry
LoadedCarryEnd ==
    previous_chunk_time + ColsToTicks(previous_chunk_data_offset)
        + ColsToTicks(Len(carry.cells))
\* the step is the first append of a process that kept the carry it loaded
AppendsAfterLoadedCarry ==
    /\ pc = "fill"
    /\ new_chunk
    /\ carry.present
    /\ ~carry_file.present
    /\ op'.kind = "append"

\* C36: at startup a loaded carry is dropped if and only if the first pending
\* packet begins a whole second or more after previous_chunk_time +
\* previous_cursor / SPS + carry_columns / SPS; a carry that is kept is
\* written at the columns [0, k) of the next chunk and the first packet is
\* appended directly after it, at its own time.
LoadedCarryDroppedIffGap ==
    [][/\ (pc = "get_files" /\ carry.present /\ pc' = "loop") =>
            (carry' = NoCarry <=>
                PacketTime(Head(h5_files_list')) - LoadedCarryEnd >= TPS)
       /\ AppendsAfterLoadedCarry =>
            /\ \A k \in 1..Len(carry.cells) : chunk_data'[k] = carry.cells[k]
            /\ CursorAtOpen = Len(carry.cells)
            /\ op'.cursor = PacketTime(Head(h5_files_list))
                                + ColsToTicks(op'.start)]_vars

\* ---------------------------------------------------------------- multithreaded_mean
\* the num_threads the Concatenator is made with: 1..MaxThreads, which is
\* more than the columns of the smallest reshaped matrix
MaxThreads == 4

\* np.array_split(arr, k, axis=1) of n columns: n % k sections of
\* n // k + 1 columns, then sections of n // k columns
SectionSize(n, k, i) == n \div k + (IF i <= n % k THEN 1 ELSE 0)

RECURSIVE SectionStart(_, _, _)
SectionStart(n, k, i) ==
    IF i = 1 THEN 0 ELSE SectionStart(n, k, i - 1) + SectionSize(n, k, i - 1)

\* a split that gives every section n // k columns
ArraySplitEqual(n, k) ==
    [i \in 1..k |-> [first |-> (i - 1) * (n \div k) + 1, last |-> i * (n \div k)]]

\* the sections of the k tasks: the columns first..last of the reshaped array
ArraySplit(n, k) ==
    [i \in 1..k |-> [first |-> SectionStart(n, k, i) + 1,
                     last |-> SectionStart(n, k, i) + SectionSize(n, k, i)]]

\* mean_chunk: np.mean(chunk, axis=-1) of one section of the reshaped array;
\* column c of the reshaped array is the group of f cells that ends at c * f
MeanChunk(data, f, sect) ==
    [r \in 1..Len(data) |->
        [k \in 1..(sect.last - sect.first + 1) |->
            SumTo(data[r], (sect.first + k - 2) * f + 1, (sect.first + k - 1) * f)
                \div f]]

RECURSIVE HstackRow(_, _)
HstackRow(results, r) ==
    IF results = << >> THEN << >>
    ELSE results[1][r] \o HstackRow(Tail(results), r)

\* np.hstack(list(results)): the results side by side, in the order of the list
Hstack(results) ==
    IF results = << >> THEN << >>
    ELSE [r \in 1..Len(results[1]) |-> HstackRow(results, r)]

\* _resample_data takes the time branch and the reshape succeeds
TimeBranch(x) ==
    /\ (SPS # x.sps \/ DX # x.dx)
    /\ x.sps >= 2 * SPS
    /\ ~ReshapeFails(x.data, x.sps \div SPS)

Tasks == 1..executor.num_thread

InitThreads ==
    /\ system = "Mekorot"
    /\ SPS \in Rates
    /\ packets = CHOOSE P \in TwinLists : TRUE
    /\ dirs = << 1..NPackets >>
    /\ \E sh \in Shapes, r \in NativeRates, p \in NativePitches :
           resampler = [file |-> [data |-> RawMatrix(sh[1], sh[2]),
                                  sps |-> r, dx |-> p],
                        data |-> RawMatrix(sh[1], sh[2]), sps |-> r, dx |-> p,
                        state |-> "raw"]
    /\ \E n \in 1..MaxThreads : executor = [state |-> "none", num_thread |-> n]
    /\ legacy = NoLegacy
    /\ last = NoLast
    /\ carry_file = NoCarry
    /\ files = {}
    /\ FreshProcess
    /\ op = NoOp
    /\ closed_by = NoClosing
    /\ golden = NoGolden
    /\ phase = "real"
    /\ kills = 0
    /\ reruns = 0
    /\ NoFaultyInput

\* _data_preprocess of a matrix that does not reach multithreaded_mean
PreprocessUnthreaded ==
    /\ ~TimeBranch(resampler)
    /\ DataPreprocess

\* multithreaded_mean, inside the with block: the pool is made, the reshaped
\* array is split and executor.map submits one task for each section
Submit ==
    /\ resampler.state = "raw"
    /\ executor.state = "none"
    /\ TimeBranch(resampler)
    /\ LET f == resampler.sps \div SPS
           n == Columns(resampler.data) \div f
       IN  executor' = [state |-> "mapped",
                        num_thread |-> executor.num_thread,
                        f |-> f,
                        chunks |-> ArraySplit(n, executor.num_thread),
                        status |-> [i \in Tasks |-> "queued"],
                        results |-> [i \in Tasks |-> << >>],
                        order |-> << >>,
                        result |-> << >>]
    /\ resampler' = [resampler EXCEPT !.state = "mean"]
    /\ UNCHANGED <<system, SPS, packets, dirs, space, unreadable, legacy>>
    /\ UNCHANGED <<pvars, qvars, hvars>>

\* a worker thread takes a task from the queue
WorkerStart(i) ==
    /\ executor.state = "mapped"
    /\ executor.status[i] = "queued"
    /\ executor' = [executor EXCEPT !.status[i] = "running"]
    /\ UNCHANGED <<system, SPS, packets, dirs, space, unreadable, resampler, legacy>>
    /\ UNCHANGED <<pvars, qvars, hvars>>

\* the worker's mean_chunk returns: the future of task i holds its result
WorkerFinish(i) ==
    /\ executor.state = "mapped"
    /\ executor.status[i] = "running"
    /\ executor' = [executor EXCEPT
                        !.status[i] = "done",
                        !.results[i] = MeanChunk(resampler.data, executor.f,
                                                 executor.chunks[i]),
                        !.order = Append(@, i)]
    /\ UNCHANGED <<system, SPS, packets, dirs, space, unreadable, resampler, legacy>>
    /\ UNCHANGED <<pvars, qvars, hvars>>

\* the with block is left, which waits for every worker; np.hstack joins the
\* results in the order of the tasks; then the rest of _resample_data and of
\* _data_preprocess
ReturnResult ==
    /\ executor.state = "mapped"
    /\ \A i \in Tasks : executor.status[i] = "done"
    /\ LET result == Hstack(executor.results)
           y == ResampleSpace([resampler EXCEPT !.data = result, !.sps = SPS])
       IN  /\ executor' = [executor EXCEPT !.state = "returned",
                                           !.result = result]
           /\ resampler' = [y EXCEPT !.state = "done"]
    /\ UNCHANGED <<system, SPS, packets, dirs, space, unreadable, legacy>>
    /\ UNCHANGED <<pvars, qvars, hvars>>

NextThreads ==
    \/ PreprocessUnthreaded
    \/ Submit
    \/ \E i \in Tasks : WorkerStart(i)
    \/ \E i \in Tasks : WorkerFinish(i)
    \/ ReturnResult

SpecThreads == InitThreads /\ [][NextThreads]_vars

\* the columns of the reshaped array: the groups of f samples of the file
Groups == Columns(resampler.file.data) \div executor.f

\* C37: for every matrix and every num_threads >= 1, more threads than
\* columns included, the threaded decimation returns the mean of each group
\* of f consecutive samples, columns in the original order, however the
\* workers are scheduled; the workers have disjoint column ranges that cover
\* the array, and all of them have finished when the result is returned.
ThreadedMeanIsSequentialMean ==
    /\ executor.state \in {"mapped", "returned"} =>
        /\ \A i \in Tasks : \A j \in Tasks :
             i < j => executor.chunks[i].last < executor.chunks[j].first
        /\ \A c \in 1..Groups : \E i \in Tasks :
             executor.chunks[i].first <= c /\ c <= executor.chunks[i].last
        /\ \A i \in Tasks :
             executor.chunks[i].first >= 1 /\ executor.chunks[i].last <= Groups
    /\ executor.state = "returned" =>
        /\ \A i \in Tasks : executor.status[i] = "done"
        /\ Rows(executor.result) = Rows(resampler.file.data)
        /\ \A r \in 1..Rows(executor.result) :
             /\ Len(executor.result[r]) = Groups
             /\ \A c \in 1..Groups :
                  executor.result[r][c] =
                      SumTo(resampler.file.data[r],
                            (c - 1) * executor.f + 1, c * executor.f)
                          \div executor.f

\* more threads than columns, and the last task finished before the first
ReturnedOutOfOrder ==
    /\ executor.state = "returned"
    /\ executor.num_thread > Groups
    /\ Groups >= 2
    /\ executor.order[1] = executor.num_thread
    /\ executor.order[executor.num_thread] = 1

\* ---------------------------------------------------------------- src/src/concat.py
\* the dual-stream engine: packets of UNIT_SIZE seconds, one every
\* UNIT_SIZE / 2 seconds; the files of even rank are the major stream, the
\* files of odd rank the minor stream
UNIT_SIZE == 4
TIME_DIFF_THRESHOLD == 3
DATA_LOSE_THRESHOLD == 4
\* bounds of the input: the files of the two directories, the packet time of
\* the first file, the time between two files
MaxFiles == 5
FirstPacketTime == 100
MaxPacketStep == 6
PacketSteps == {s \in 2..MaxPacketStep : s % 2 = 0}
\* a file whose dataset has the expected shape, and one whose shape is wrong
FileKinds == {"ok", "shape"}

RECURSIVE StepsTo(_, _)
StepsTo(st, i) == IF i <= 1 THEN 0 ELSE st[i - 1] + StepsTo(st, i - 1)

\* the sorted file lists the two directories can hold
LegacyFileLists ==
    UNION { { [i \in 1..n |-> [time |-> FirstPacketTime + StepsTo(st, i),
                               kind |-> kd[i]]] :
                st \in [1..(n - 1) -> PacketSteps], kd \in [1..n -> FileKinds] } :
            n \in 1..MaxFiles }

\* H5File.check_h5: (unpack_stat, error)
CheckH5(file, last_timestamp) ==
    IF last_timestamp # 0 /\ file.time - last_timestamp > DATA_LOSE_THRESHOLD
    THEN [stat |-> FALSE, error |-> "missing"]
    ELSE IF file.kind = "shape"
         THEN [stat |-> FALSE, error |-> "downsampling"]
         ELSE [stat |-> TRUE, error |-> "None"]

\* lst[::-1]
Reversed(lst) == [i \in 1..Len(lst) |-> lst[Len(lst) + 1 - i]]

\* files_split: files[::2][::-1] and files[1::2][::-1]
FilesSplit(lst) ==
    [major |-> Reversed([i \in 1..((Len(lst) + 1) \div 2) |-> lst[2 * i - 1]]),
     minor |-> Reversed([i \in 1..(Len(lst) \div 2) |-> lst[2 * i]])]

\* lst[-1] and lst.pop()
LastOf(lst) == lst[Len(lst)]
Popped(lst) == SubSeq(lst, 1, Len(lst) - 1)

\* calculate_chunk_offset
CalculateChunkOffset(processed_units) == (processed_units \div CHUNK_SIZE) * CHUNK_SIZE

\* get_h5_files(next directory, limit = 4 * CHUNK_SIZE / UNIT_SIZE + 1)
GetH5Files(lst) ==
    SubSeq(lst, 1, IF Len(lst) < (4 * CHUNK_SIZE) \div UNIT_SIZE + 1
                   THEN Len(lst) ELSE (4 * CHUNK_SIZE) \div UNIT_SIZE + 1)

\* the seconds of a chunk file (require_h5 makes an empty one), and concat_h5
SecondsIn(chunks, ct) == IF ct \in DOMAIN chunks THEN chunks[ct] ELSE 0
ConcatH5(chunks, ct, seconds) ==
    [c \in DOMAIN chunks \cup {ct} |->
        IF c = ct THEN SecondsIn(chunks, ct) + seconds ELSE chunks[c]]

\* concat_files up to the loop, for a directory never worked on: get_queue
\* gives the sorted files, the time of the first one, no processed time
InitLegacy ==
    /\ system = "Mekorot"
    /\ SPS = 1
    /\ packets = CHOOSE P \in TwinLists : TRUE
    /\ dirs = << 1..NPackets >>
    /\ resampler = NoResampler
    /\ executor = NoExecutor
    /\ \E lst \in LegacyFileLists : \E k \in 1..Len(lst) :
         LET q == FilesSplit(SubSeq(lst, 1, k))
         IN  legacy = [pc |-> "test",
                       next_dir |-> SubSeq(lst, k + 1, Len(lst)),
                       h5_major_list |-> q.major,
                       h5_minor_list |-> q.minor,
                       start_chunk_time |-> lst[1].time,
                       processed_time |-> 0,
                       last_timestamp |-> 0,
                       is_last_chunk |-> FALSE,
                       last_is_major |-> "None",
                       h5_file |-> [time |-> 0, kind |-> "none"],
                       is_major |-> FALSE,
                       h5_unpack_error |-> "None",
                       merged |-> [from |-> 0, seconds |-> 0, split |-> "none"],
                       chunks |-> << >>,
                       result |-> "None"]
    /\ last = NoLast
    /\ carry_file = NoCarry
    /\ files = {}
    /\ FreshProcess
    /\ op = NoOp
    /\ closed_by = NoClosing
    /\ golden = NoGolden
    /\ phase = "real"
    /\ kills = 0
    /\ reruns = 0
    /\ NoFaultyInput

LegacyUnchanged ==
    /\ UNCHANGED <<system, SPS, packets, dirs, space, unreadable, resampler, executor>>
    /\ UNCHANGED <<pvars, qvars, hvars>>

\* concat_files 186-208: the head of the loop; the major file is tested, and
\* the minor file when there is no major file or its check fails
TestFiles ==
    /\ legacy.pc = "test"
    /\ Len(legacy.h5_major_list) > 0 \/ Len(legacy.h5_minor_list) > 0
    /\ LET maj == IF Len(legacy.h5_major_list) > 0
                  THEN CheckH5(LastOf(legacy.h5_major_list), legacy.last_timestamp)
                  ELSE [stat |-> FALSE, error |-> legacy.h5_unpack_error]
       IN  IF maj.stat
           THEN legacy' = [legacy EXCEPT !.pc = "concat",
                                         !.h5_file = LastOf(legacy.h5_major_list),
                                         !.is_major = TRUE,
                                         !.h5_unpack_error = maj.error]
           ELSE IF Len(legacy.h5_minor_list) = 0
                THEN legacy' = [legacy EXCEPT !.pc = "IndexError",
                                              !.is_major = FALSE,
                                              !.h5_unpack_error = maj.error]
                ELSE LET min == CheckH5(LastOf(legacy.h5_minor_list),
                                        legacy.last_timestamp)
                     IN  legacy' = [legacy EXCEPT
                            !.pc = IF min.stat THEN "concat" ELSE "returned",
                            !.result = IF min.stat THEN @ ELSE "False",
                            !.h5_file = LastOf(legacy.h5_minor_list),
                            !.is_major = FALSE,
                            !.h5_unpack_error = min.error]
    /\ LegacyUnchanged

\* CHUNK_SIZE - ((CHUNK_SIZE + processed_time) % CHUNK_SIZE)
TillChunkEnd(processed_time) ==
    CHUNK_SIZE - ((CHUNK_SIZE + processed_time) % CHUNK_SIZE)

\* concat_files 221-236: the part of the packet to append and its merge_time
SplitChoice ==
    IF (legacy.is_major \/ legacy.h5_unpack_error = "missing")
            /\ TillChunkEnd(legacy.processed_time) < TIME_DIFF_THRESHOLD
    THEN [split |-> "first_half", carry |-> TRUE, merge_time |-> UNIT_SIZE \div 2]
    ELSE IF legacy.h5_file.time - legacy.last_timestamp < TIME_DIFF_THRESHOLD
         THEN [split |-> "second_half", carry |-> FALSE,
               merge_time |-> UNIT_SIZE \div 2]
         ELSE [split |-> "none", carry |-> FALSE, merge_time |-> UNIT_SIZE]

\* concat_files 221-248 with concat_to_chunk_by_time: the packet, or the
\* chosen half of it, is appended to the chunk file of processed_time; when
\* processed_time comes to a multiple of CHUNK_SIZE the next chunk file is
\* made and takes the carry, or the last chunk of the directory is done
ConcatToChunkByTime ==
    /\ legacy.pc = "concat"
    /\ LET c == SplitChoice
           chunk_t == legacy.start_chunk_time
                            + CalculateChunkOffset(legacy.processed_time)
           seconds == IF c.split = "none" THEN UNIT_SIZE ELSE UNIT_SIZE \div 2
           written == ConcatH5(legacy.chunks, chunk_t, seconds)
           processed == legacy.processed_time + c.merge_time
           next_time == legacy.start_chunk_time + CalculateChunkOffset(processed)
           merged == [from |-> legacy.processed_time, seconds |-> seconds,
                      split |-> c.split]
       IN  IF processed % CHUNK_SIZE # 0
           THEN legacy' = [legacy EXCEPT !.pc = "clean", !.chunks = written,
                                         !.merged = merged,
                                         !.processed_time = processed]
           ELSE IF legacy.is_last_chunk
                THEN legacy' = [legacy EXCEPT !.pc = "returned", !.chunks = written,
                                              !.merged = merged,
                                              !.processed_time = -1,
                                              !.result = "True"]
                ELSE legacy' = [legacy EXCEPT
                        !.pc = "clean",
                        !.merged = merged,
                        !.chunks = ConcatH5(written, next_time,
                                            IF c.carry THEN UNIT_SIZE \div 2 ELSE 0),
                        !.processed_time =
                            IF c.carry THEN processed + UNIT_SIZE \div 2
                            ELSE processed]
    /\ LegacyUnchanged

\* concat_files 250-292: the used file, and the file of the other stream it
\* makes obsolete, leave the queues; the next directory is listed when the
\* queues are empty before the chunk is full
CleanQueue ==
    /\ legacy.pc = "clean"
    /\ LET both == IF legacy.is_major THEN legacy.last_is_major = "True"
                   ELSE legacy.last_is_major = "False"
           other == IF legacy.is_major THEN legacy.h5_minor_list
                    ELSE legacy.h5_major_list
           used == IF legacy.is_major THEN legacy.h5_major_list
                   ELSE legacy.h5_minor_list
       IN  IF (both /\ Len(other) = 0) \/ Len(used) = 0
           THEN legacy' = [legacy EXCEPT !.pc = "IndexError"]
           ELSE LET other1 == IF both THEN Popped(other) ELSE other
                    used1 == Popped(used)
                    major == IF legacy.is_major THEN used1 ELSE other1
                    minor == IF legacy.is_major THEN other1 ELSE used1
                    list_next == Len(major) = 0 /\ Len(minor) = 0
                                    /\ ~legacy.is_last_chunk
                                    /\ (CHUNK_SIZE + legacy.processed_time)
                                            % CHUNK_SIZE # 0
                    q == FilesSplit(GetH5Files(legacy.next_dir))
                IN  legacy' = [legacy EXCEPT
                        !.pc = "test",
                        !.h5_major_list = IF list_next THEN q.major ELSE major,
                        !.h5_minor_list = IF list_next THEN q.minor ELSE minor,
                        !.last_timestamp = legacy.h5_file.time,
                        !.last_is_major = IF legacy.is_major THEN "True" ELSE "False",
                        !.is_last_chunk = IF list_next THEN TRUE ELSE @]
    /\ LegacyUnchanged

\* concat_files 294-296: both queues are empty
ReturnAfterLoop ==
    /\ legacy.pc = "test"
    /\ Len(legacy.h5_major_list) = 0 /\ Len(legacy.h5_minor_list) = 0
    /\ legacy' = [legacy EXCEPT
            !.pc = "returned",
            !.result = IF (CHUNK_SIZE + legacy.processed_time) % CHUNK_SIZE # 0
                       THEN "False" ELSE "True"]
    /\ LegacyUnchanged

NextLegacy == TestFiles \/ ConcatToChunkByTime \/ CleanQueue \/ ReturnAfterLoop

SpecLegacy == InitLegacy /\ [][NextLegacy]_vars

\* C38: the major and the minor queue are never indexed or popped when empty:
\* whatever the split of the file list and the outcome of the file checks,
\* no iteration of the loop of concat_files ends in an IndexError.
QueuesNeverIndexedEmpty == legacy.pc # "IndexError"

\* the chunk file processed_time falls in
CurrentChunkTime ==
    legacy.start_chunk_time + CalculateChunkOffset(legacy.processed_time)

\* C39: processed_time comes to every multiple of CHUNK_SIZE and never jumps
\* over one, with the major file and with the minor file: no chunk file
\* holds more than CHUNK_SIZE seconds, and every chunk file before the one
\* being written holds CHUNK_SIZE seconds.
EveryChunkExactlyFull ==
    (legacy.pc \in {"test", "concat", "clean"}) =>
        \A ct \in DOMAIN legacy.chunks :
            /\ legacy.chunks[ct] <= CHUNK_SIZE
            /\ ct < CurrentChunkTime => legacy.chunks[ct] = CHUNK_SIZE

====
